---- MODULE Spec2Model ----
(***************************************************************************)
(* minimart backend (src/backend/app.py): the catalog, the single shared   *)
(* cart and the checkout transaction, as a state machine over the four     *)
(* tables and the requests in flight.                                      *)
(*                                                                         *)
(* Money.  A Decimal is modelled as an integer number of thousandths       *)
(* (mills), so Decimal("9.99") is 9990 and quantize(Decimal("0.01")) is a  *)
(* real rounding step (to a multiple of 10, half-even).                    *)
(*                                                                         *)
(* Store.  The committed tables are the variables products, cart, orders   *)
(* and orderItems.  A request works in its own SQLAlchemy session: what it *)
(* has read and what it has written but not committed lives in             *)
(* session[r], and reaches the tables only in the step that commits.       *)
(* Reads see committed rows (READ COMMITTED, PostgreSQL's default level;   *)
(* pysqlite's reads outside a transaction behave the same).  A request     *)
(* that raises is rolled back when its session is removed.                 *)
(***************************************************************************)
EXTENDS Integers, Sequences, FiniteSets, TLC

\* ------------------------------------------------------------------ bounds
MaxProducts == 2    \* products created in a run
MaxQty      == 2    \* largest quantity one addItem request asks for
MaxLineQty  == 3    \* largest quantity a cart line grows to
MaxCartRows == 2    \* cart_items rows inserted in a run
MaxOrders   == 2    \* orders rows inserted (flushed) in a run

Requests == {1, 2}  \* request slots: at most two requests in flight

\* The one cart id every request uses.
CartId == "default"

\* ------------------------------------------------------------- JSON inputs
JAbsent == [t |-> "absent", v |-> 0]   \* key not in the body
JText   == [t |-> "text",   v |-> 0]   \* a string that is not a number
JNum(n) == [t |-> "num",    v |-> n]   \* a number (for a price: in mills)

\* Names as sequences of characters; " " is whitespace.
NameInputs == { <<>>, <<" ">>, <<"t">>, <<" ", "t", " ">> }

\* Prices a client sends, in mills: -1.00, -0.004, 0, 0.005, 0.015, 0.016,
\* 0.024
PriceInputs ==
    {JAbsent, JText} \cup { JNum(n) : n \in {-1000, -4, 0, 5, 15, 16, 24} }

ProductIdInputs == {JAbsent, JText} \cup { JNum(n) : n \in 1..(MaxProducts + 1) }
QuantityInputs  == {JAbsent, JText} \cup { JNum(n) : n \in (-1)..MaxQty }

\* ------------------------------------------------------------------- money
\* Mutant: the third fraction digit is cut off instead of rounded.
QuantizeTruncated(m) == (m \div 10) * 10

\* Decimal.quantize(Decimal("0.01")): round to 2 fraction digits, half-even.
Quantize(m) ==
    LET q == m \div 10
        r == m % 10
    IN  IF r < 5 THEN q * 10
        ELSE IF r > 5 THEN (q + 1) * 10
        ELSE IF q % 2 = 0 THEN q * 10 ELSE (q + 1) * 10

\* Stored prices a product can have (a NUMERIC(10, 2) column).
ProductPrices == { Quantize(j.v) : j \in { p \in PriceInputs : p.t = "num" } }
                   \cap Nat

None == -1   \* Python's None where a Decimal is expected

\* _money(val): None -> 0.0, a Decimal -> float of it quantized to 2 digits.
Money(val) == IF val = None THEN 0 ELSE Quantize(val)

\* str.strip() on a name.
RECURSIVE LStrip(_)
LStrip(s) == IF s # <<>> /\ Head(s) = " " THEN LStrip(Tail(s)) ELSE s
RECURSIVE RStrip(_)
RStrip(s) == IF s # <<>> /\ s[Len(s)] = " "
             THEN RStrip(SubSeq(s, 1, Len(s) - 1)) ELSE s
Strip(s) == RStrip(LStrip(s))

\* ------------------------------------------------------------------- state
VARIABLES
    products,    \* catalog_products: id (the position) -> [name, description, price]
    cart,        \* cart_items: set of [id, cart_id, product_id, quantity]
    cartSeq,     \* last id given to a cart_items row
    orders,      \* orders, in commit order: [id, total]
    orderSeq,    \* last id given to an orders row
    orderItems,  \* order_items, in commit order: [order_id, product_id, quantity, unit_price]
    session,     \* per request: its position and its session's reads and pending writes
    resp         \* the response the last step sent, NoResp when it sent none

vars == <<products, cart, cartSeq, orders, orderSeq, orderItems, session, resp>>
db   == <<products, cart, orders, orderItems>>

IdleSession ==
    [pc |-> "idle", product_id |-> 0, quantity |-> 0, seen |-> <<>>,
     order_id |-> 0, total |-> 0, items |-> <<>>, deleted |-> {}]

NoResp ==
    [r |-> 0, op |-> "none", status |-> 0, msg |-> "", id |-> 0, total |-> 0,
     items |-> <<>>, body |-> <<>>]

Resp(op, status, msg, id, total) ==
    [r |-> 0, op |-> op, status |-> status, msg |-> msg, id |-> id, total |-> total,
     items |-> <<>>, body |-> <<>>]

\* A response together with the JSON body of the request it answers, for
\* the handlers that answer in the step that reads the body.
Answer(body, rec) == [rec EXCEPT !.body = body]

\* A response whose body carries a list (the cart's lines, the products).
RespList(op, status, items, total) ==
    [Resp(op, status, "", 0, total) EXCEPT !.items = items]

Init ==
    /\ products = <<>>
    /\ cart = {}
    /\ cartSeq = 0
    /\ orders = <<>>
    /\ orderSeq = 0
    /\ orderItems = <<>>
    /\ session = [r \in Requests |-> IdleSession]
    /\ resp = NoResp

\* ----------------------------------------------------------------- helpers
\* The rows of a set, as a list in ascending id order.
RECURSIVE RowList(_)
RowList(S) ==
    IF S = {} THEN <<>>
    ELSE LET m == CHOOSE x \in S : \A y \in S : x.id <= y.id
         IN  <<m>> \o RowList(S \ {m})

\* CartItem.query.filter_by(cart_id=cart_id)
CartRows(cid) == { ci \in cart : ci.cart_id = cid }

\* Mutant: the product lookup's result is not checked.
ProductExistsUnchecked(pid) == TRUE

\* Product.query.get(product_id) is not None.
ProductExists(pid) == pid \in 1..Len(products)

\* Mutant: the line total forgets the quantity.
LineTotalUnit(unit, quantity) == unit

\* unit * ci.quantity (lines 106 and 240)
LineTotal(unit, quantity) == unit * quantity

\* Mutant: an order item's price is read through its product, live.
UnitPriceLive(oi) == products[oi.product_id].price

\* OrderItem.unit_price: the price column of the order_items row itself.
UnitPrice(oi) == oi.unit_price

\* The OrderItems of an order (the backref Order.items).
ItemsOf(o) == SelectSeq(orderItems, LAMBDA oi : oi.order_id = o.id)

\* The exact sum of unit_price x quantity over a list of order items.
RECURSIVE SumLines(_)
SumLines(items) ==
    IF items = <<>> THEN 0
    ELSE UnitPrice(Head(items)) * Head(items).quantity + SumLines(Tail(items))

\* _cart_summary(cart_id): out_items and total as the loop builds them.
RECURSIVE SummaryItems(_)
SummaryItems(rows) ==
    IF rows = <<>> THEN <<>>
    ELSE LET ci == Head(rows)
             unit == products[ci.product_id].price
         IN  << [cart_item_id |-> ci.id, product_id |-> ci.product_id,
                 name |-> products[ci.product_id].name, price |-> Money(unit),
                 quantity |-> ci.quantity,
                 line_total |-> Money(LineTotal(unit, ci.quantity))] >>
             \o SummaryItems(Tail(rows))

\* Mutant: total = line_total instead of total += line_total.
SummaryTotalAssigned(rows) ==
    IF rows = <<>> THEN 0
    ELSE LineTotal(products[rows[Len(rows)].product_id].price, rows[Len(rows)].quantity)

RECURSIVE SummaryTotal(_)
SummaryTotal(rows) ==
    IF rows = <<>> THEN 0
    ELSE LineTotal(products[Head(rows).product_id].price, Head(rows).quantity)
         + SummaryTotal(Tail(rows))

CartSummary(c, cid) ==
    LET items == RowList({ ci \in c : ci.cart_id = cid })
    IN  [items |-> SummaryItems(items), total |-> Money(SummaryTotal(items))]

\* Rows held locked by another request's uncommitted DELETE.
LockedByOthers(r) == UNION { session[o].deleted : o \in Requests \ {r} }

\* Requests other than r that will insert a row of a bounded table.
PendingInserts(r) ==
    Cardinality({ o \in Requests \ {r} :
                    session[o].pc = "add_commit" /\ session[o].seen = <<>> })
PendingOrders(r) ==
    Cardinality({ o \in Requests \ {r} : session[o].pc = "co_flush" })

\* The response is sent and the request's session is removed.
Respond(r, rec) ==
    /\ resp' = [rec EXCEPT !.r = r]
    /\ session' = [session EXCEPT ![r] = IdleSession]

\* ------------------------------------------------- health, list_products
Health(r) ==
    /\ session[r].pc = "idle"
    /\ Respond(r, Resp("health", 200, "ok", 0, 0))
    /\ UNCHANGED <<products, cart, cartSeq, orders, orderSeq, orderItems>>

\* Product.query.order_by(Product.id.asc()).all(), each row as its JSON object.
ProductList ==
    [i \in 1..Len(products) |->
        [id |-> i, name |-> products[i].name,
         description |-> products[i].description,
         price |-> Money(products[i].price)]]

ListProducts(r) ==
    /\ session[r].pc = "idle"
    /\ Respond(r, RespList("products", 200, ProductList, 0))
    /\ UNCHANGED <<products, cart, cartSeq, orders, orderSeq, orderItems>>

\* ---------------------------------------------------------------- get_cart
GetCart(r) ==
    LET summary == CartSummary(cart, CartId)
    IN  /\ session[r].pc = "idle"
        /\ Respond(r, RespList("cart", 200, summary.items, summary.total))
        /\ UNCHANGED <<products, cart, cartSeq, orders, orderSeq, orderItems>>

\* ---------------------------------------------------------- create_product
CreateProduct(r) ==
    /\ session[r].pc = "idle"
    /\ \E nm \in NameInputs, pr \in PriceInputs :
         LET body == [name |-> nm, price |-> pr]
             name == Strip(nm)
             price_dec == Quantize(pr.v)
         IN  IF name = <<>>
             THEN /\ Respond(r, Answer(body, Resp("create", 400, "name is required", 0, 0)))
                  /\ UNCHANGED products
             ELSE IF pr.t = "absent"
             THEN /\ Respond(r, Answer(body, Resp("create", 400, "price is required", 0, 0)))
                  /\ UNCHANGED products
             ELSE IF pr.t = "text"
             THEN /\ Respond(r, Answer(body, Resp("create", 400,
                                                  "price must be a number", 0, 0)))
                  /\ UNCHANGED products
             ELSE IF price_dec < 0
             THEN /\ Respond(r, Answer(body, Resp("create", 400,
                                                  "price must be >= 0", 0, 0)))
                  /\ UNCHANGED products
             ELSE /\ Len(products) < MaxProducts
                  /\ products' = Append(products,
                        [name |-> name, description |-> <<>>, price |-> price_dec])
                  /\ Respond(r, Answer(body, Resp("create", 201, "Product created",
                                                  Len(products) + 1, Money(price_dec))))
    /\ UNCHANGED <<cart, cartSeq, orders, orderSeq, orderItems>>

\* ------------------------------------------------------------- add_to_cart
\* Mutant: the lookup filters on the row id instead of the product id.
ExistingLinesById(cid, product_id) ==
    { ci \in CartRows(cid) : ci.id = product_id }

\* CartItem.query.filter_by(cart_id=cart_id, product_id=product_id)
ExistingLines(cid, product_id) ==
    { ci \in CartRows(cid) : ci.product_id = product_id }

\* Mutant: the quantity is overwritten instead of incremented.
NewQuantityOverwrite(existing, quantity) == quantity

\* existing.quantity += quantity
NewQuantity(existing, quantity) == existing.quantity + quantity

\* Mutant: the test is quantity < 0, so 0 passes.
QuantityRejectedBelowZero(quantity) == quantity < 0

\* if quantity <= 0 (line 204)
QuantityRejected(quantity) == quantity <= 0

\* Lines 189-211: validation, the product lookup and the SELECT of the
\* existing line.  The request then holds what it read until it commits.
AddRead(r) ==
    /\ session[r].pc = "idle"
    /\ \E pj \in ProductIdInputs, qj \in QuantityInputs :
         LET body == [product_id |-> pj, quantity |-> qj]
             product_id == pj.v
             quantity == IF qj.t = "absent" THEN 1 ELSE qj.v
             matches == ExistingLines(CartId, product_id)
         IN  IF pj.t = "absent"
             THEN Respond(r, Answer(body, Resp("add", 400, "product_id is required", 0, 0)))
             ELSE IF pj.t = "text" \/ qj.t = "text"
             THEN Respond(r, Answer(body, Resp("add", 400,
                                  "product_id and quantity must be integers", 0, 0)))
             ELSE IF QuantityRejected(quantity)
             THEN Respond(r, Answer(body, Resp("add", 400, "quantity must be >= 1", 0, 0)))
             ELSE IF ~ProductExists(product_id)
             THEN Respond(r, Answer(body, Resp("add", 404, "product not found", 0, 0)))
             ELSE IF matches # {}
             THEN \E existing \in matches :
                    /\ existing.quantity + quantity <= MaxLineQty
                    /\ session' = [session EXCEPT ![r] =
                          [IdleSession EXCEPT !.pc = "add_commit",
                                              !.product_id = product_id,
                                              !.quantity = quantity,
                                              !.seen = <<existing>>]]
                    /\ resp' = NoResp
             ELSE /\ cartSeq + PendingInserts(r) < MaxCartRows
                  /\ session' = [session EXCEPT ![r] =
                        [IdleSession EXCEPT !.pc = "add_commit",
                                            !.product_id = product_id,
                                            !.quantity = quantity]]
                  /\ resp' = NoResp
    /\ UNCHANGED <<products, cart, cartSeq, orders, orderSeq, orderItems>>

\* Lines 212-218: existing.quantity += quantity (an UPDATE that sets the
\* value computed from the row as read) or the INSERT, and the commit.
\* An UPDATE that finds its row gone raises (StaleDataError).
AddCommit(r) ==
    LET s == session[r]
    IN  /\ s.pc = "add_commit"
        /\ IF s.seen # <<>>
           THEN LET existing == s.seen[1]
                    now == { ci \in cart : ci.id = existing.id }
                IN  /\ existing.id \notin LockedByOthers(r)
                    /\ IF now = {}
                       THEN /\ Respond(r, Resp("add", 500, "error", 0, 0))
                            /\ UNCHANGED <<cart, cartSeq>>
                       ELSE /\ cart' = (cart \ now) \cup
                                 { [ci EXCEPT !.quantity = NewQuantity(existing, s.quantity)]
                                     : ci \in now }
                            /\ Respond(r, Resp("add", 200, "Added to cart", 0,
                                               CartSummary(cart', CartId).total))
                            /\ UNCHANGED cartSeq
           ELSE /\ cartSeq' = cartSeq + 1
                /\ cart' = cart \cup
                     { [id |-> cartSeq + 1, cart_id |-> CartId,
                        product_id |-> s.product_id, quantity |-> s.quantity] }
                /\ Respond(r, Resp("add", 200, "Added to cart", 0,
                                   CartSummary(cart', CartId).total))
        /\ UNCHANGED <<products, orders, orderSeq, orderItems>>

\* ---------------------------------------------------------------- checkout
\* Mutant: the empty-cart check is missing.
CheckoutReadNoCheck(r) ==
    LET cart_items == RowList(CartRows(CartId))
    IN  /\ session[r].pc = "idle"
        /\ orderSeq + PendingOrders(r) < MaxOrders
        /\ session' = [session EXCEPT ![r] =
              [IdleSession EXCEPT !.pc = "co_flush", !.seen = cart_items]]
        /\ resp' = NoResp
        /\ UNCHANGED <<products, cart, cartSeq, orders, orderSeq, orderItems>>

\* Lines 227-231: the SELECT of the cart's rows.
CheckoutRead(r) ==
    LET cart_items == RowList(CartRows(CartId))
    IN  /\ session[r].pc = "idle"
        /\ IF cart_items = <<>>
           THEN Respond(r, Resp("checkout", 400, "Cart is empty", 0, 0))
           ELSE /\ orderSeq + PendingOrders(r) < MaxOrders
                /\ session' = [session EXCEPT ![r] =
                      [IdleSession EXCEPT !.pc = "co_flush", !.seen = cart_items]]
                /\ resp' = NoResp
        /\ UNCHANGED <<products, cart, cartSeq, orders, orderSeq, orderItems>>

\* Mutant: the Order row is committed where it is flushed.
CheckoutFlushCommitted(r) ==
    /\ session[r].pc = "co_flush"
    /\ orderSeq' = orderSeq + 1
    /\ orders' = Append(orders, [id |-> orderSeq + 1, total |-> 0])
    /\ session' = [session EXCEPT
          ![r].pc = IF session[r].seen = <<>> THEN "co_delete" ELSE "co_item",
          ![r].order_id = orderSeq + 1,
          ![r].total = 0]
    /\ UNCHANGED <<products, cart, cartSeq, orderItems>>
    /\ resp' = NoResp

\* Lines 233-236: the Order row is inserted with total 0.00 and flushed,
\* which gives it its id; it is not committed.
CheckoutFlush(r) ==
    /\ session[r].pc = "co_flush"
    /\ orderSeq' = orderSeq + 1
    /\ session' = [session EXCEPT
          ![r].pc = IF session[r].seen = <<>> THEN "co_delete" ELSE "co_item",
          ![r].order_id = orderSeq + 1,
                                  ![r].total = 0]
    /\ UNCHANGED <<products, cart, cartSeq, orders, orderItems>>
    /\ resp' = NoResp

\* ci.product.price: the product is loaded when first used in the session
\* and served from the session afterwards.
UnitPriceFor(s, ci) ==
    LET loaded == { i \in 1..Len(s.items) : s.items[i].product_id = ci.product_id }
    IN  IF loaded # {} THEN s.items[CHOOSE i \in loaded : TRUE].unit_price
        ELSE products[ci.product_id].price

\* Mutant: the OrderItem is given the cart row's id as its product_id.
CheckoutItemRowId(r) ==
    LET s == session[r]
        ci == s.seen[Len(s.items) + 1]
        unit == UnitPriceFor(s, ci)
    IN  /\ s.pc = "co_item"
        /\ session' = [session EXCEPT
              ![r].total = s.total + LineTotal(unit, ci.quantity),
              ![r].items = Append(s.items,
                  [order_id |-> s.order_id, product_id |-> ci.id,
                   quantity |-> ci.quantity, unit_price |-> unit]),
              ![r].pc = IF Len(s.items) + 1 = Len(s.seen) THEN "co_delete" ELSE "co_item"]
        /\ UNCHANGED <<products, cart, cartSeq, orders, orderSeq, orderItems>>
        /\ resp' = NoResp

\* Mutant: the OrderItem is built without quantity=, so the column default applies.
CheckoutItemDefaultQuantity(r) ==
    LET s == session[r]
        ci == s.seen[Len(s.items) + 1]
        unit == UnitPriceFor(s, ci)
    IN  /\ s.pc = "co_item"
        /\ session' = [session EXCEPT
              ![r].total = s.total + LineTotal(unit, ci.quantity),
              ![r].items = Append(s.items,
                  [order_id |-> s.order_id, product_id |-> ci.product_id,
                   quantity |-> 1, unit_price |-> unit]),
              ![r].pc = IF Len(s.items) + 1 = Len(s.seen) THEN "co_delete" ELSE "co_item"]
        /\ UNCHANGED <<products, cart, cartSeq, orders, orderSeq, orderItems>>
        /\ resp' = NoResp

\* Lines 238-248: one turn of the loop over the rows read.
CheckoutItem(r) ==
    LET s == session[r]
        ci == s.seen[Len(s.items) + 1]
        unit == UnitPriceFor(s, ci)
        line_total == LineTotal(unit, ci.quantity)
    IN  /\ s.pc = "co_item"
        /\ session' = [session EXCEPT
              ![r].total = s.total + line_total,
              ![r].items = Append(s.items,
                  [order_id |-> s.order_id, product_id |-> ci.product_id,
                   quantity |-> ci.quantity, unit_price |-> unit]),
              ![r].pc = IF Len(s.items) + 1 = Len(s.seen) THEN "co_delete" ELSE "co_item"]
        /\ UNCHANGED <<products, cart, cartSeq, orders, orderSeq, orderItems>>
        /\ resp' = NoResp

\* Mutant: the cart is not cleared.
CheckoutDeleteSkipped(r) ==
    /\ session[r].pc = "co_delete"
    /\ session' = [session EXCEPT ![r].pc = "co_commit", ![r].deleted = {}]
    /\ UNCHANGED <<products, cart, cartSeq, orders, orderSeq, orderItems>>
    /\ resp' = NoResp

\* Lines 250-253: order.total = total, and DELETE FROM cart_items WHERE
\* cart_id = ...: every row committed by now, whether or not it was read.
\* It waits for rows another request's DELETE holds.
CheckoutDelete(r) ==
    LET ids == { ci.id : ci \in CartRows(CartId) }
    IN  /\ session[r].pc = "co_delete"
        /\ ids \cap LockedByOthers(r) = {}
        /\ session' = [session EXCEPT ![r].pc = "co_commit", ![r].deleted = ids]
        /\ UNCHANGED <<products, cart, cartSeq, orders, orderSeq, orderItems>>
        /\ resp' = NoResp

\* Mutant: the checkout adds to the latest order when there is one,
\* instead of keeping its own.
CheckoutCommitReusesOrder(r) ==
    LET s == session[r]
        n == Len(orders)
    IN  /\ s.pc = "co_commit"
        /\ orders' = IF n = 0
                      THEN Append(orders, [id |-> s.order_id, total |-> s.total])
                      ELSE [orders EXCEPT ![n].total = orders[n].total + s.total]
        /\ orderItems' = orderItems \o
              [i \in 1..Len(s.items) |->
                 [s.items[i] EXCEPT !.order_id = orders'[Len(orders')].id]]
        /\ cart' = { ci \in cart : ci.id \notin s.deleted }
        /\ Respond(r, Resp("checkout", 200, "Checkout successful",
                           orders'[Len(orders')].id, Money(s.total)))
        /\ UNCHANGED <<products, cartSeq, orderSeq>>

\* Lines 254-260: the commit makes the order, its items and the delete
\* visible at once.
CheckoutCommit(r) ==
    LET s == session[r]
    IN  /\ s.pc = "co_commit"
        /\ orders' = Append(orders, [id |-> s.order_id, total |-> s.total])
        /\ orderItems' = orderItems \o s.items
        /\ cart' = { ci \in cart : ci.id \notin s.deleted }
        /\ Respond(r, Resp("checkout", 200, "Checkout successful",
                           s.order_id, Money(s.total)))
        /\ UNCHANGED <<products, cartSeq, orderSeq>>

\* A statement or the commit raises: the response is a 500 and the
\* session's transaction is rolled back.
Fail(r) ==
    /\ session[r].pc # "idle"
    /\ Respond(r, Resp(IF session[r].pc = "add_commit" THEN "add" ELSE "checkout",
                       500, "error", 0, 0))
    /\ UNCHANGED <<products, cart, cartSeq, orders, orderSeq, orderItems>>

\* A product's price is changed in the store (there is no endpoint for it).
SetPrice ==
    /\ \E pid \in 1..Len(products), price \in ProductPrices :
         /\ price # products[pid].price
         /\ products' = [products EXCEPT ![pid].price = price]
    /\ resp' = NoResp
    /\ UNCHANGED <<cart, cartSeq, orders, orderSeq, orderItems, session>>

\* ------------------------------------------------------------ specifications
Step(r) ==
    \/ Health(r)
    \/ ListProducts(r)
    \/ CreateProduct(r)
    \/ GetCart(r)
    \/ AddRead(r)
    \/ AddCommit(r)
    \/ CheckoutRead(r)
    \/ CheckoutFlush(r)
    \/ CheckoutItem(r)
    \/ CheckoutDelete(r)
    \/ CheckoutCommit(r)
    \/ Fail(r)

AllIdle == \A r \in Requests : session[r].pc = "idle"

\* Requests handled one at a time.
Next ==
    \/ Step(1)
    \/ AllIdle /\ SetPrice

Spec == Init /\ [][Next]_vars

\* Two workers handle addItem and checkout requests at once, their
\* statements interleaved, on a store whose catalog is already filled.
InitConc ==
    /\ products = [i \in 1..MaxProducts |->
                     [name |-> <<"t">>, description |-> <<>>, price |-> Quantize(15)]]
    /\ cart = {}
    /\ cartSeq = 0
    /\ orders = <<>>
    /\ orderSeq = 0
    /\ orderItems = <<>>
    /\ session = [r \in Requests |-> IdleSession]
    /\ resp = NoResp

StepConc(r) ==
    \/ AddRead(r)
    \/ AddCommit(r)
    \/ CheckoutRead(r)
    \/ CheckoutFlush(r)
    \/ CheckoutItem(r)
    \/ CheckoutDelete(r)
    \/ CheckoutCommit(r)
    \/ Fail(r)

NextConc == \E r \in Requests : StepConc(r)

SpecConc == InitConc /\ [][NextConc]_vars

\* ------------------------------------------------------------------ claims
\* What a step shows of the request r that took it.
CheckoutWrote(r) == session[r].pc \in {"co_item", "co_delete", "co_commit"}
CheckoutFailed(r) ==
    /\ CheckoutWrote(r)
    /\ resp'.r = r /\ resp'.op = "checkout" /\ resp'.status = 500
CheckoutSucceeded(r) ==
    /\ session[r].pc = "co_commit"
    /\ resp'.r = r /\ resp'.op = "checkout" /\ resp'.status = 200
StartsCheckout(r) ==
    /\ session[r].pc = "idle"
    /\ \/ session'[r].pc = "co_flush"
       \/ resp'.r = r /\ resp'.op = "checkout"
AddSucceeded(r) ==
    /\ session[r].pc = "add_commit"
    /\ resp'.r = r /\ resp'.op = "add" /\ resp'.status = 200

Range(f) == { f[i] : i \in DOMAIN f }

\* C1: with requests handled one at a time, a checkout that fails after it
\* has started writing (the Order flushed, some OrderItems added, the
\* delete issued) leaves no new Order and no new OrderItem and the cart
\* exactly as the checkout read it; and no step creates an order without
\* clearing the non-empty cart, or clears the cart without creating an order.
C1_CheckoutAllOrNothing ==
    [][ /\ \A r \in Requests :
             CheckoutFailed(r) =>
               /\ orders' = orders
               /\ orderItems' = orderItems
               /\ cart' = Range(session[r].seen)
        /\ (Len(orders') # Len(orders) \/ Len(orderItems') # Len(orderItems))
             <=> (cart # {} /\ cart' = {})
        /\ { ci.id : ci \in cart } \subseteq { ci.id : ci \in cart' } \/ cart' = {}
      ]_vars

\* C1 witness: a checkout failed after its Order row had been flushed; the
\* order id is used up, no order exists and the cart still has its rows.
C1_Witness ==
    /\ resp.op = "checkout" /\ resp.status = 500
    /\ orderSeq = 1 /\ orders = <<>> /\ orderItems = <<>>
    /\ Cardinality(cart) = 2

\* C2: with requests handled one at a time, a checkout that succeeds on a
\* cart of n >= 1 rows adds exactly one Order and exactly n OrderItems, the
\* i-th with the i-th row's product_id and quantity and the product's
\* current price as unit_price; afterwards the cart is empty and its
\* summary is an empty list with total 0.00.
C2_CheckoutCreatesOrder ==
    [][ \A r \in Requests :
          CheckoutSucceeded(r) =>
            LET rows == RowList(CartRows(CartId))
                new == SubSeq(orderItems', Len(orderItems) + 1, Len(orderItems'))
                order == orders'[Len(orders')]
            IN  /\ Len(rows) >= 1
                /\ Len(orders') = Len(orders) + 1
                /\ SubSeq(orders', 1, Len(orders)) = orders
                /\ SubSeq(orderItems', 1, Len(orderItems)) = orderItems
                /\ order.id = resp'.id
                /\ \A i \in 1..Len(orders) : orders[i].id # order.id
                /\ Len(new) = Len(rows)
                /\ \A i \in 1..Len(rows) :
                     /\ new[i].order_id = order.id
                     /\ new[i].product_id = rows[i].product_id
                     /\ new[i].quantity = rows[i].quantity
                     /\ new[i].unit_price = products[rows[i].product_id].price
                /\ cart' = {}
                /\ CartSummary(cart', CartId) = [items |-> <<>>, total |-> 0]
      ]_vars

\* C2 witness: a checkout of a two-line cart has just succeeded.
C2_Witness ==
    /\ resp.op = "checkout" /\ resp.status = 200
    /\ Len(orders) = 1 /\ Len(orderItems) = 2
    /\ orderItems[1].product_id # orderItems[2].product_id
    /\ orderItems[1].quantity # orderItems[2].quantity
    /\ cart = {}

\* C3: a checkout that starts on an empty cart answers 400 "Cart is empty"
\* and changes nothing: no Order, no OrderItem, no order id used, products
\* and cart as they were.
C3_EmptyCartRejected ==
    [][ \A r \in Requests :
          (StartsCheckout(r) /\ CartRows(CartId) = {}) =>
            /\ resp' = [Resp("checkout", 400, "Cart is empty", 0, 0) EXCEPT !.r = r]
            /\ session'[r] = IdleSession
            /\ UNCHANGED <<products, cart, cartSeq, orders, orderSeq, orderItems>>
      ]_vars

\* C3 witness: an empty-cart checkout was answered after an earlier order.
C3_Witness ==
    /\ resp.op = "checkout" /\ resp.status = 400 /\ resp.msg = "Cart is empty"
    /\ cart = {} /\ Len(orders) = 1

\* C4: with requests handled one at a time, the cart never holds two
\* CartItems with the same (cart_id, product_id).
C4_OneLinePerProduct ==
    \A a \in cart, b \in cart :
        (a.cart_id = b.cart_id /\ a.product_id = b.product_id) => a = b

\* C4 witness: a product was added again and its line grew past what one
\* request can ask for, beside the line of another product.
C4_Witness ==
    /\ Cardinality(cart) = 2
    /\ \E ci \in cart : ci.quantity > MaxQty
\* C5: with requests handled one at a time, an addItem that succeeds for
\* product p with quantity q >= 1 either finds the cart's line for p, at
\* quantity k, and leaves it at k + q with no row added, or finds none and
\* inserts exactly one line for p with quantity q; every other line is
\* unchanged.
C5_AddItemMergesOrInserts ==
    [][ \A r \in Requests :
          AddSucceeded(r) =>
            LET p == session[r].product_id
                q == session[r].quantity
                old == { ci \in cart : ci.cart_id = CartId /\ ci.product_id = p }
            IN  /\ q >= 1
                /\ p \in 1..Len(products)
                /\ IF old # {}
                   THEN \E ci \in old :
                          cart' = (cart \ {ci}) \cup
                                  { [ci EXCEPT !.quantity = ci.quantity + q] }
                   ELSE \E row \in cart' :
                          /\ \A ci \in cart : ci.id # row.id
                          /\ cart' = cart \cup {row}
                          /\ row.cart_id = CartId
                          /\ row.product_id = p
                          /\ row.quantity = q
      ]_vars

\* C5 witness: the only line ever inserted was added to again and now
\* stands above what a single request can ask for.
C5_Witness ==
    /\ resp.op = "add" /\ resp.status = 200
    /\ cartSeq = 1
    /\ \E ci \in cart : ci.quantity = MaxQty + 1

\* C6: every Order's total is the exact sum of unit_price x quantity over
\* its own OrderItems and is not negative, and no step changes or removes
\* an Order once it is there.
C6_OrderTotalIsSumOfLines ==
    [][ /\ \A i \in 1..Len(orders') :
             /\ orders'[i].total = SumLines(ItemsOf(orders[i]))'
             /\ orders'[i].total >= 0
        /\ Len(orders') >= Len(orders)
        /\ \A i \in 1..Len(orders) : orders'[i] = orders[i]
      ]_vars

\* C6 witness: an order of two priced lines with different quantities,
\* still there after a later price change.
C6_Witness ==
    /\ Len(orders) = 1
    /\ Len(ItemsOf(orders[1])) = 2
    /\ \A i \in 1..2 : orderItems[i].unit_price > 0
    /\ orderItems[1].quantity # orderItems[2].quantity
    /\ products[orderItems[1].product_id].price # orderItems[1].unit_price

\* C7: a step that changes a product's price leaves every Order's stored
\* total and every OrderItem's unit_price as they were.
PriceChanged ==
    /\ Len(products') = Len(products)
    /\ \E p \in 1..Len(products) : products'[p].price # products[p].price

C7_UnitPriceFrozen ==
    [][ PriceChanged =>
          /\ Len(orders') = Len(orders)
          /\ \A i \in 1..Len(orders) : orders'[i].total = orders[i].total
          /\ Len(orderItems') = Len(orderItems)
          /\ \A i \in 1..Len(orderItems) :
               UnitPrice(orderItems[i])' = UnitPrice(orderItems[i])
      ]_vars

\* C7 witness: an ordered product's price has changed since; the order
\* item still carries the old price and the order its old total.
C7_Witness ==
    \E i \in 1..Len(orderItems) :
        /\ orderItems[i].unit_price > 0
        /\ products[orderItems[i].product_id].price # orderItems[i].unit_price
        /\ \E j \in 1..Len(orders) :
             /\ orders[j].id = orderItems[i].order_id
             /\ orders[j].total > 0
\* The quantity of product p over a set of cart rows or a list of order items.
RECURSIVE RowsQuantity(_, _)
RowsQuantity(S, p) ==
    IF S = {} THEN 0
    ELSE LET ci == CHOOSE x \in S : TRUE
         IN  (IF ci.product_id = p THEN ci.quantity ELSE 0) + RowsQuantity(S \ {ci}, p)

RECURSIVE ItemsQuantity(_, _)
ItemsQuantity(items, p) ==
    IF items = <<>> THEN 0
    ELSE (IF Head(items).product_id = p THEN Head(items).quantity ELSE 0)
         + ItemsQuantity(Tail(items), p)

\* C8: with two workers interleaved, a checkout that succeeds made its
\* order from cart rows that are still in the cart when it commits: no
\* cart row goes into two orders, the later checkout finding the cart
\* empty instead.
C8_NoDoubleCheckout ==
    [][ \A r \in Requests :
          CheckoutSucceeded(r) =>
            \A row \in Range(session[r].seen) : \E ci \in cart : ci.id = row.id
      ]_vars

\* C9: with two workers interleaved, an addItem that found the line of its
\* product and succeeds leaves exactly one line for the product, its
\* quantity grown by the request's quantity from what the cart held when
\* the request committed (no update of another request is lost).
C9_AddItemIsOneUnit ==
    [][ \A r \in Requests :
          (AddSucceeded(r) /\ session[r].seen # <<>>) =>
            LET p == session[r].product_id
            IN  /\ Cardinality({ ci \in cart' : ci.cart_id = CartId
                                                  /\ ci.product_id = p }) = 1
                /\ RowsQuantity(cart', p) = RowsQuantity(cart, p) + session[r].quantity
      ]_vars

\* C10: with two workers interleaved, a checkout that succeeds records in
\* its order, for every product, at least the quantity its commit removes
\* from the cart: nothing an addItem committed meanwhile is deleted
\* without being ordered.
C10_CheckoutIsOneUnit ==
    [][ \A r \in Requests :
          CheckoutSucceeded(r) =>
            LET removed == { ci \in cart : \A cj \in cart' : cj.id # ci.id }
            IN  \A p \in 1..Len(products) :
                  RowsQuantity(removed, p) <= ItemsQuantity(session[r].items, p)
      ]_vars

\* The step answers an addItem request of r in the step that read its body.
AddAnswered(r) ==
    /\ session[r].pc = "idle"
    /\ resp'.r = r /\ resp'.op = "add"

\* The step reads an addItem request of r and goes on to the commit.
AddAccepted(r) ==
    /\ session[r].pc = "idle"
    /\ session'[r].pc = "add_commit"

\* C11: an addItem whose quantity is an integer <= 0 is answered 400
\* "quantity must be >= 1", and one whose quantity is >= 1 (or left out,
\* which means 1) for a product_id that no Product has is answered 404
\* "product not found"; neither changes the cart, the products, the orders
\* or an id sequence, and no addItem with such a quantity or product_id
\* goes on to its commit.
C11_AddItemRejectsBadInput ==
    [][ \A r \in Requests :
          /\ AddAnswered(r) =>
                LET pj == resp'.body.product_id
                    qj == resp'.body.quantity
                IN  /\ (qj.t = "num" /\ qj.v <= 0) =>
                          /\ resp'.status = 400
                          /\ pj.t = "num" => resp'.msg = "quantity must be >= 1"
                    /\ (pj.t = "num" /\ (qj.t = "absent" \/ (qj.t = "num" /\ qj.v >= 1))
                           /\ pj.v \notin 1..Len(products)) =>
                          /\ resp'.status = 404
                          /\ resp'.msg = "product not found"
                    /\ resp'.status \in {400, 404}
                    /\ session'[r] = IdleSession
                    /\ UNCHANGED <<products, cart, cartSeq, orders, orderSeq, orderItems>>
          /\ AddAccepted(r) =>
                /\ session'[r].quantity >= 1
                /\ session'[r].product_id \in 1..Len(products)
      ]_vars

\* C11 witness: with a line in the cart and an order placed, an addItem of
\* quantity 1 for a product_id past the last product was answered 404.
C11_Witness ==
    /\ resp.op = "add" /\ resp.status = 404
    /\ resp.body.quantity = JNum(1)
    /\ resp.body.product_id.v > Len(products)
    /\ cart # {} /\ orders # <<>>

\* The step answers a createProduct request of r.
CreateAnswered(r) ==
    /\ session[r].pc = "idle"
    /\ resp'.r = r /\ resp'.op = "create"

\* A name that is missing or nothing but whitespace.
BlankName(nm) == \A i \in DOMAIN nm : nm[i] = " "

\* C12: a createProduct whose price is negative or missing, or whose name
\* is missing or empty after trimming, is answered 400 and the product
\* list is the same after the request as before it.
C12_CreateProductRejectsBadInput ==
    [][ \A r \in Requests :
          CreateAnswered(r) =>
            LET nm == resp'.body.name
                pr == resp'.body.price
            IN  (BlankName(nm) \/ pr.t = "absent" \/ (pr.t = "num" /\ pr.v < 0)) =>
                  /\ resp'.status = 400
                  /\ products' = products
      ]_vars

\* The sum of the line_total fields of a summary's lines.
RECURSIVE SumLineTotals(_)
SumLineTotals(lines) ==
    IF lines = <<>> THEN 0
    ELSE Head(lines).line_total + SumLineTotals(Tail(lines))

\* The step answers a getSummary request of r.
CartAnswered(r) ==
    /\ session[r].pc = "idle"
    /\ resp'.r = r /\ resp'.op = "cart"

\* C13: getSummary answers one line per CartItem of the cart, each with the
\* row's id, product_id and quantity, the product's current price and
\* line_total = price x quantity; its total is the exact sum of the line
\* totals, a whole number of cents; an empty cart gives an empty list and
\* total 0.00; and the request changes no table, id sequence or session.
C13_SummaryIsExactSum ==
    [][ \A r \in Requests :
          CartAnswered(r) =>
            LET lines == resp'.items
                rows == CartRows(CartId)
            IN  /\ resp'.status = 200
                /\ Len(lines) = Cardinality(rows)
                /\ \A ci \in rows :
                     \E i \in 1..Len(lines) :
                        /\ lines[i].cart_item_id = ci.id
                        /\ lines[i].product_id = ci.product_id
                        /\ lines[i].quantity = ci.quantity
                        /\ lines[i].price = products[ci.product_id].price
                        /\ lines[i].line_total =
                             products[ci.product_id].price * ci.quantity
                /\ resp'.total = SumLineTotals(lines)
                /\ resp'.total % 10 = 0
                /\ rows = {} => (lines = <<>> /\ resp'.total = 0)
                /\ session' = session
                /\ UNCHANGED <<products, cart, cartSeq, orders, orderSeq, orderItems>>
      ]_vars

\* C13 witness: a summary of two lines, one of three items at 0.02 whose
\* line total is 0.06, and a total above that line.
C13_Witness ==
    /\ resp.op = "cart" /\ Len(resp.items) = 2
    /\ \E i \in 1..2 :
         /\ resp.items[i].quantity = 3
         /\ resp.items[i].price = 20
         /\ resp.items[i].line_total = 60
         /\ resp.total > 60

\* s is the beginning of t.
IsPrefix(s, t) == Len(s) <= Len(t) /\ SubSeq(t, 1, Len(s)) = s

\* The step answers a request of r that is no checkout, or a checkout of r
\* with a failure.
OtherAnswered(r) ==
    /\ resp'.r = r
    /\ \/ resp'.op \in {"health", "products", "create", "cart", "add"}
       \/ resp'.op = "checkout" /\ resp'.status # 200

\* C14: every step leaves each Order and OrderItem that exists where and as
\* it is; only the step in which a checkout succeeds adds any; and the step
\* that answers createProduct, addItem, getSummary, listProducts or a
\* failed checkout leaves both tables exactly as they were.
C14_OrdersAppendOnly ==
    [][ /\ IsPrefix(orders, orders')
        /\ IsPrefix(orderItems, orderItems')
        /\ (orders' # orders \/ orderItems' # orderItems) =>
              \E r \in Requests : CheckoutSucceeded(r)
        /\ \A r \in Requests :
              OtherAnswered(r) => (orders' = orders /\ orderItems' = orderItems)
      ]_vars

\* C14 witness: a second checkout has succeeded and the first order and its
\* item are still the first rows of their tables.
C14_Witness ==
    /\ resp.op = "checkout" /\ resp.status = 200
    /\ Len(orders) = 2 /\ Len(orderItems) >= 2
    /\ orders[1].id = 1 /\ orderItems[1].order_id = 1
    /\ orders[2].id # 1

\* C15: every CartItem and every OrderItem has quantity >= 1.
C15_QuantitiesPositive ==
    /\ \A ci \in cart : ci.quantity >= 1
    /\ \A i \in 1..Len(orderItems) : orderItems[i].quantity >= 1

\* C15 witness: an addItem of quantity 0 has just been turned away, with a
\* line in the cart and an order item on record.
C15_Witness ==
    /\ resp.op = "add" /\ resp.status = 400
    /\ resp.body.product_id.t = "num" /\ resp.body.quantity = JNum(0)
    /\ cart # {} /\ orderItems # <<>>

\* Every product_id in the cart and in the order items is a Product's id.
ReferencesResolve ==
    /\ \A ci \in cart : ci.product_id \in 1..Len(products)
    /\ \A i \in 1..Len(orderItems) : orderItems[i].product_id \in 1..Len(products)

\* C16: in every state every CartItem's and every OrderItem's product_id
\* is the id of a Product that exists, and no step removes a Product or
\* changes which id it has, its name or its description.
C16_ProductReferencesResolve ==
    /\ []ReferencesResolve
    /\ [][ /\ Len(products') >= Len(products)
           /\ \A p \in 1..Len(products) :
                /\ products'[p].name = products[p].name
                /\ products'[p].description = products[p].description
         ]_vars

\* C16 witness: the last product created has a line in the cart and an
\* item in an order.
C16_Witness ==
    /\ Len(products) = MaxProducts
    /\ \E ci \in cart : ci.product_id = Len(products)
    /\ \E i \in 1..Len(orderItems) : orderItems[i].product_id = Len(products)

\* c is m rounded to 2 fraction digits: a whole number of cents, nearest to
\* m, and the even one of the two when m lies halfway.
Abs(x) == IF x < 0 THEN -x ELSE x
IsRounded(c, m) ==
    /\ c % 10 = 0
    /\ Abs(c - m) <= 5
    /\ Abs(c - m) = 5 => (c \div 10) % 2 = 0

\* C17: a createProduct with a name that is not blank and a numeric price
\* >= 0 is answered 201 and adds exactly one Product, whose stored price
\* and returned price are both the input rounded to 2 fraction digits and
\* whose id is returned and is greater than every id there was; the
\* products there were stay as they are.
C17_CreateProductRoundsPrice ==
    [][ \A r \in Requests :
          CreateAnswered(r) =>
            LET nm == resp'.body.name
                pr == resp'.body.price
                n == Len(products)
            IN  (~BlankName(nm) /\ pr.t = "num" /\ pr.v >= 0) =>
                  /\ resp'.status = 201
                  /\ Len(products') = n + 1
                  /\ SubSeq(products', 1, n) = products
                  /\ IsRounded(products'[n + 1].price, pr.v)
                  /\ IsRounded(resp'.total, pr.v)
                  /\ resp'.total = products'[n + 1].price
                  /\ resp'.id = n + 1
                  /\ \A p \in 1..n : p < resp'.id
      ]_vars

\* C17 witness: a second product was created from the price 0.015 and is
\* stored and returned with the price 0.02.
C17_Witness ==
    /\ resp.op = "create" /\ resp.status = 201
    /\ resp.body.price = JNum(15)
    /\ resp.id = 2 /\ Len(products) = 2
    /\ products[2].price = 20 /\ resp.total = 20

\* The quantity of product p the store holds: in the cart and in all orders.
Held(p) == RowsQuantity(cart, p) + ItemsQuantity(orderItems, p)

\* What the step adds to the successful addItem quantities of product p.
AddedBy(p) ==
    IF \E r \in Requests : AddSucceeded(r) /\ session[r].product_id = p
    THEN LET r == CHOOSE r \in Requests : AddSucceeded(r) /\ session[r].product_id = p
         IN  session[r].quantity
    ELSE 0

\* C18: with requests handled one at a time, for every product the
\* quantity in the cart plus the quantity over all OrderItems equals the sum
\* of the quantities of the addItem requests that succeeded for it: it is 0
\* at the start, a successful addItem of q raises it by exactly q, and no
\* other step (createProduct, a rejected addItem, a checkout that succeeds
\* or fails, a read) changes it.
C18_QuantityConserved ==
    /\ \A p \in 1..MaxProducts : Held(p) = 0
    /\ [][ \A p \in 1..MaxProducts : Held(p)' = Held(p) + AddedBy(p) ]_vars

\* C18 witness: a product has units in an order and, added after that
\* checkout, in the cart.
C18_Witness ==
    /\ resp.op = "add" /\ resp.status = 200
    /\ \E p \in 1..Len(products) :
         /\ ItemsQuantity(orderItems, p) >= 2
         /\ RowsQuantity(cart, p) >= 1

\* C19: with two workers interleaved, no Order has two OrderItems with the
\* same product_id.
C19_OneOrderItemPerProduct ==
    \A i \in 1..Len(orderItems), j \in 1..Len(orderItems) :
        (/\ orderItems[i].order_id = orderItems[j].order_id
         /\ orderItems[i].product_id = orderItems[j].product_id) => i = j

\* C20: with two workers interleaved, every committed Order has at least
\* one OrderItem and carries the sum of its lines as its total, not the
\* placeholder; and the Order row a checkout has flushed is not among the
\* committed orders as long as that checkout has not committed.
C20_NoPlaceholderOrder ==
    /\ \A i \in 1..Len(orders) :
         /\ ItemsOf(orders[i]) # <<>>
         /\ orders[i].total = SumLines(ItemsOf(orders[i]))
    /\ \A r \in Requests :
         CheckoutWrote(r) =>
           \A i \in 1..Len(orders) : orders[i].id # session[r].order_id

\* C20 witness: a checkout has flushed its Order row and added an item to
\* it but not committed, while an earlier order stands committed with its
\* items and a total that is not the placeholder.
C20_Witness ==
    /\ Len(orders) = 1 /\ ItemsOf(orders[1]) # <<>> /\ orders[1].total > 0
    /\ \E r \in Requests :
         /\ session[r].pc = "co_delete"
         /\ session[r].order_id # orders[1].id
         /\ session[r].items # <<>>

====
